---- MODULE Spec2Model ----
(***************************************************************************)
(* Slide narration server (src/server.js): the two POST handlers           *)
(*   /api/analyze-slide         (single slide)                             *)
(*   /api/analyze-slides-batch  (slide detection + sequential generation)  *)
(* as a state machine.  Every await of a handler is one step; the          *)
(* collaborators (puppeteer, the page, the generative model) return or     *)
(* throw nondeterministically.                                             *)
(***************************************************************************)
EXTENDS Integers, Sequences, FiniteSets, TLC

(* ------------------------------ bounds -------------------------------- *)
\* requests the server can hold (only those in `clients` are ever sent)
NumReqs == 2
\* elements of a small rendered page
MaxElems == 3
\* the large pages have SlideCap-1 .. SlideCap+MaxOver slide elements
MaxOver == 1
\* the generator may throw at positions below MaxFailPos and at the last
\* position below the cap
MaxFailPos == 3

(* ------------------------- program constants -------------------------- *)
\* Math.min(slides.length, 50)
SlideCap == 50
\* slide.text.trim().length > 20
MinTextLen == 20
\* slide.text.substring(0, 1500)
BatchTextBudget == 1500
\* textContent.substring(0, 2000)
SingleTextBudget == 2000

Reqs == 1..NumReqs

Min(a, b) == IF a < b THEN a ELSE b

(* ------------------------------- text --------------------------------- *)
\* A string is kept as the number of leading whitespace characters, the
\* number of characters from the first to the last non-whitespace character
\* and the number of trailing whitespace characters (an all-whitespace
\* string has core 0 and its whitespace counted in lead).
Text(l, c, t) == [lead |-> l, core |-> c, trail |-> t]

EmptyText == Text(0, 0, 0)

\* String.prototype.length
Length(s) == s.lead + s.core + s.trail

\* String.prototype.trim
Trim(s) == Text(0, s.core, 0)

\* String.prototype.substring(0, n); a cut inside the core may expose inner
\* whitespace, which is kept in the core
Substring(s, n) ==
    IF Length(s) <= n THEN s
    ELSE IF n <= s.lead THEN Text(n, 0, 0)
    ELSE IF n <= s.lead + s.core THEN Text(s.lead, n - s.lead, 0)
    ELSE Text(s.lead, s.core, n - s.lead - s.core)

\* the text of two consecutive blocks as innerText joins them: a line break
\* between them
JoinText(a, b) ==
    IF a.core = 0 /\ b.core = 0 THEN Text(Length(a) + 1 + Length(b), 0, 0)
    ELSE IF a.core = 0 THEN Text(Length(a) + 1 + b.lead, b.core, b.trail)
    ELSE IF b.core = 0 THEN Text(a.lead, a.core, a.trail + 1 + Length(b))
    ELSE Text(a.lead, a.core + a.trail + 1 + b.lead + b.core, b.trail)

\* text whose trimmed length is exactly MinTextLen although its length is more
ShortText == Text(1, MinTextLen, 1)
\* text whose trimmed length is MinTextLen + 1
LongText == Text(0, MinTextLen + 1, 0)
\* a second text that passes the filter (on the large pages)
LongerText == Text(0, MinTextLen + 2, 0)

\* the texts of the elements of the small pages
Texts == {ShortText, LongText}

(* ----------------------------- the document --------------------------- *)
Element(tg, cl, tx) == [tag |-> tg, class |-> cl, text |-> tx]

ElementKinds ==
    { <<"section", "">>, <<"div", "slide">>, <<"div", "page">>,
      <<"article", "">>, <<"div", "swiper-slide">>, <<"div", "">>,
      <<"nav", "">> }

Elements == { Element(k[1], k[2], tx) : k \in ElementKinds, tx \in Texts }

RECURSIVE SeqsUpTo(_, _)
SeqsUpTo(S, n) ==
    IF n = 0 THEN { <<>> }
    ELSE LET shorter == SeqsUpTo(S, n - 1)
         IN  shorter \cup { Append(s, e) : s \in { t \in shorter : Len(t) = n - 1 }, e \in S }

SmallPages == SeqsUpTo(Elements, MaxElems)

LargePages ==
    { [k \in 1..n |->
          Element("section", "", IF k % 2 = 1 THEN LongText ELSE LongerText)] :
        n \in (SlideCap - 1)..(SlideCap + MaxOver) }

\* the documents a navigation can end in: the children of body, in document
\* order
Pages == SmallPages \cup LargePages

NoPage == <<Element("none", "", EmptyText)>>

\* the class names that contain the given substring ([class*="..."])
ClassContains(cl, sub) ==
    \/ cl = sub
    \/ cl = "swiper-slide" /\ sub \in {"slide", "swiper"}

Matches(sel, el) ==
    CASE sel.by = "tag" -> el.tag = sel.arg
      [] sel.by = "classSub" -> ClassContains(el.class, sel.arg)
      [] sel.by = "class" -> el.class = sel.arg

\* document.querySelectorAll(selector), in document order
QuerySelectorAll(doc, sel) == SelectSeq(doc, LAMBDA el : Matches(sel, el))

\* the text of the elements lo..hi, joined by halves
RECURSIVE InnerTextOf(_, _, _)
InnerTextOf(doc, lo, hi) ==
    IF lo > hi THEN EmptyText
    ELSE IF lo = hi THEN doc[lo].text
    ELSE LET mid == (lo + hi) \div 2
             left == InnerTextOf(doc, lo, mid)
             right == InnerTextOf(doc, mid + 1, hi)
         IN  JoinText(left, right)

\* document.body.innerText
InnerText(doc) == InnerTextOf(doc, 1, Len(doc))

excludeSelectors ==
    << [by |-> "tag", arg |-> "script"], [by |-> "tag", arg |-> "style"],
       [by |-> "tag", arg |-> "nav"], [by |-> "tag", arg |-> "header"],
       [by |-> "tag", arg |-> "footer"] >>

\* excludeSelectors.forEach(... el.remove())
RemoveExcluded(doc) ==
    SelectSeq(doc, LAMBDA el :
        \A k \in 1..Len(excludeSelectors) : ~Matches(excludeSelectors[k], el))

slideSelectors ==
    << [by |-> "tag", arg |-> "section"],
       [by |-> "classSub", arg |-> "slide"],
       [by |-> "classSub", arg |-> "page"],
       [by |-> "tag", arg |-> "article"],
       [by |-> "class", arg |-> "swiper-slide"] >>


\* the selector loop without its break: the last matching pattern wins
RECURSIVE SelectSlideElementsNoBreak(_, _)
SelectSlideElementsNoBreak(doc, k) ==
    IF k > Len(slideSelectors) THEN <<>>
    ELSE LET elements == QuerySelectorAll(doc, slideSelectors[k])
             later == SelectSlideElementsNoBreak(doc, k + 1)
         IN  IF Len(later) > 0 THEN later ELSE elements

\* for (const selector of slideSelectors) { ... if (elements.length > 0)
\* { slideElements = elements; break; } }, from the k-th selector on
RECURSIVE SelectSlideElements(_, _)
SelectSlideElements(doc, k) ==
    IF k > Len(slideSelectors) THEN <<>>
    ELSE LET elements == QuerySelectorAll(doc, slideSelectors[k])
         IN  IF Len(elements) > 0 THEN elements
             ELSE SelectSlideElements(doc, k + 1)

\* slideElements.map((el, idx) => ({ text: el.innerText, index: idx }))
MapSlides(slideElements) ==
    [idx \in 1..Len(slideElements) |->
        [text |-> slideElements[idx].text, index |-> idx - 1]]

\* the filter without trim()
KeepSlideUntrimmed(slide) == Length(slide.text) > MinTextLen

\* slide => slide.text.trim().length > 20
KeepSlide(slide) == Length(Trim(slide.text)) > MinTextLen

\* a segmenter that falls back to the whole page when the filter leaves
\* no slide
DetectSlidesFallbackAfterFilter(doc) ==
    LET slideElements == SelectSlideElements(doc, 1)
        kept == SelectSeq(MapSlides(slideElements), KeepSlide)
    IN  IF Len(kept) = 0
        THEN << [text |-> InnerText(doc), index |-> 0] >>
        ELSE kept

\* a segmenter that filters the elements first and numbers the kept ones
DetectSlidesReindexed(doc) ==
    LET slideElements == SelectSlideElements(doc, 1)
    IN  IF Len(slideElements) = 0
        THEN << [text |-> InnerText(doc), index |-> 0] >>
        ELSE MapSlides(SelectSeq(slideElements,
                 LAMBDA el : Length(Trim(el.text)) > MinTextLen))

\* the function evaluated in the page by the batch handler
DetectSlides(doc) ==
    LET slideElements == SelectSlideElements(doc, 1)
    IN  IF Len(slideElements) = 0
        THEN << [text |-> InnerText(doc), index |-> 0] >>
        ELSE SelectSeq(MapSlides(slideElements), KeepSlide)

(* ------------------------- prompts and results ------------------------ *)
\* i === 0 ? ... : i === slides.length - 1 ? ... : ...
PositionRole(i, slideCount) ==
    IF i = 0 THEN "first"
    ELSE IF i = slideCount - 1 THEN "last"
    ELSE "middle"

\* a prompt that always takes the text of slides[0]
BatchPromptFirstSlide(i, slideList) ==
    [ ordinal |-> i + 1,
      role    |-> PositionRole(i, Len(slideList)),
      text    |-> Substring(slideList[1].text, BatchTextBudget) ]

\* the batch prompt for the slide at position i
BatchPrompt(i, slideList) ==
    [ ordinal |-> i + 1,
      role    |-> PositionRole(i, Len(slideList)),
      text    |-> Substring(slideList[i + 1].text, BatchTextBudget) ]

\* the single-slide prompt
SinglePrompt(textContent) ==
    [ ordinal |-> 0,
      role    |-> "standalone",
      text    |-> Substring(textContent, SingleTextBudget) ]

\* result.response.text().trim(): the text the generator returned for a prompt
Generated(prompt) == [kind |-> "generated", for |-> prompt]

\* a fallback that names the 0-based position
FallbackZeroBased(i) == [kind |-> "fallback", ordinal |-> i]

\* `スライド${i + 1}の内容を説明します。`
Fallback(i) == [kind |-> "fallback", ordinal |-> i + 1]

\* a loop bound without the ceiling
LoopBoundUncapped(slideList) == Len(slideList)

\* the loop bound Math.min(slides.length, 50)
LoopBound(slideList) == Min(Len(slideList), SlideCap)

\* a validation that only rejects the empty string
FalsyEmptyOnly(url) == url = ""

\* !url
Falsy(url) == url \in {"undefined", ""}

Urls == {"undefined", "", "http://deck"}
SlideCountFields == {0, 12}
Endpoints == {"single", "batch"}

\* positions at which the model lets model.generateContent throw
GenMayThrow(i) == i < MaxFailPos \/ i >= SlideCap - 1


(* ------------------------------- state -------------------------------- *)
VARIABLES
    clients,      \* the requests that are sent in this run
    web,          \* which documents the requested url can render to in this run
    pc,           \* per request: the await its handler is suspended at
    endpoint,     \* per request: which handler runs it
    body,         \* per request: req.body, [url, slideCount]
    browser,      \* per request: the local `browser` (0 is null)
    procs,        \* the browsers launched so far: state and close() calls
    dom,          \* per request: the document loaded in its page
    slides,       \* per request: the local `slides` of the batch handler
    textContent,  \* per request: the local `textContent` of the single handler
    narrations,   \* per request: the local `narrations` (single: `narration`)
    i,            \* per request: the loop variable of the batch handler
    error,        \* per request: the message of the caught error
    responses,    \* per request: the responses sent on `res`
    log           \* per request: generator calls, their outcomes and delays

vars == << clients, web, pc, endpoint, body, browser, procs, dom, slides,
           textContent, narrations, i, error, responses, log >>

NoBody == [url |-> "undefined", slideCount |-> 0]

InitRequests ==
    /\ pc = [r \in Reqs |-> "idle"]
    /\ endpoint = [r \in Reqs |-> "none"]
    /\ body = [r \in Reqs |-> NoBody]
    /\ browser = [r \in Reqs |-> 0]
    /\ procs = <<>>
    /\ dom = [r \in Reqs |-> NoPage]
    /\ slides = [r \in Reqs |-> <<>>]
    /\ textContent = [r \in Reqs |-> EmptyText]
    /\ narrations = [r \in Reqs |-> <<>>]
    /\ i = [r \in Reqs |-> 0]
    /\ error = [r \in Reqs |-> "none"]
    /\ responses = [r \in Reqs |-> <<>>]
    /\ log = [r \in Reqs |-> <<>>]

\* one request is sent, to any of the documents
Init == clients = {1} /\ web = "any" /\ InitRequests

\* the documents of the runs with two requests in flight
ConcurrentPages ==
    { << Element("section", "", LongText), Element("section", "", ShortText),
         Element("section", "", LongText) >>,
      << Element("nav", "", LongText) >> }

\* two requests are sent and handled concurrently
InitConcurrent == clients = {1, 2} /\ web = "concurrent" /\ InitRequests

\* the documents a navigation can end in, in a run of the given kind
Rendered(w) == IF w = "any" THEN Pages ELSE ConcurrentPages

(* ------------------------------ helpers ------------------------------- *)
\* res.status(400).json({ error })
BadRequest == [status |-> 400]

\* res.status(500).json({ error, message: error.message })
ServerError(ep, msg) == [status |-> 500, error |-> ep, message |-> msg]

\* a success response that reports the number of narrations as slideCount
BatchSuccessCappedCount(ns, slideList) ==
    [ status |-> 200, success |-> TRUE, narrations |-> ns,
      slideCount |-> Len(ns), generatedCount |-> Len(ns) ]

\* res.json({ success, narrations, slideCount, generatedCount })
BatchSuccess(ns, slideList) ==
    [ status |-> 200, success |-> TRUE, narrations |-> ns,
      slideCount |-> Len(slideList), generatedCount |-> Len(ns) ]

\* res.json({ success, narration, textLength, narrationLength })
SingleSuccess(n, text) ==
    [ status |-> 200, success |-> TRUE, narration |-> n,
      textLength |-> Length(text) ]

\* the catch block, entered with the caught error: close the browser if the
\* local still holds one, then answer 500
EnterCatch(r, msg) ==
    /\ error' = [error EXCEPT ![r] = msg]
    /\ IF browser[r] # 0
       THEN /\ pc' = [pc EXCEPT ![r] = "catchClose"]
            /\ UNCHANGED responses
       ELSE /\ pc' = [pc EXCEPT ![r] = "done"]
            /\ responses' = [responses EXCEPT
                   ![r] = Append(@, ServerError(endpoint[r], msg))]

\* a loop head that also bounds the loop by the request's slideCount field
\* (Math.min(slides.length, 50, slideCount), an absent field stopping it)
LoopHeadEnforcing(r, j, ns, lg) ==
    /\ i' = [i EXCEPT ![r] = j]
    /\ narrations' = [narrations EXCEPT ![r] = ns]
    /\ IF j < Min(LoopBound(slides[r]), body[r].slideCount)
       THEN /\ pc' = [pc EXCEPT ![r] = "generate"]
            /\ log' = [log EXCEPT ![r] =
                   Append(lg, [ev |-> "call", prompt |-> BatchPrompt(j, slides[r])])]
            /\ UNCHANGED responses
       ELSE /\ pc' = [pc EXCEPT ![r] = "done"]
            /\ log' = [log EXCEPT ![r] = lg]
            /\ responses' = [responses EXCEPT
                   ![r] = Append(@, BatchSuccess(ns, slides[r]))]

\* the head of the for loop with i = j and narrations = ns: issue the next
\* generateContent call, or leave the loop and answer 200
LoopHead(r, j, ns, lg) ==
    /\ i' = [i EXCEPT ![r] = j]
    /\ narrations' = [narrations EXCEPT ![r] = ns]
    /\ IF j < LoopBound(slides[r])
       THEN /\ pc' = [pc EXCEPT ![r] = "generate"]
            /\ log' = [log EXCEPT ![r] =
                   Append(lg, [ev |-> "call", prompt |-> BatchPrompt(j, slides[r])])]
            /\ UNCHANGED responses
       ELSE /\ pc' = [pc EXCEPT ![r] = "done"]
            /\ log' = [log EXCEPT ![r] = lg]
            /\ responses' = [responses EXCEPT
                   ![r] = Append(@, BatchSuccess(ns, slides[r]))]

\* browser.close() on browser b ends with the process in state st
Closed(b, st) ==
    procs' = [procs EXCEPT ![b] = [@ EXCEPT !.state = st, !.closeCalls = @ + 1]]

\* the states a close() that throws can leave the process in
AfterFailedClose(b) ==
    IF procs[b].state = "open" THEN {"open", "closed"} ELSE {"closed"}

\* the document of a request lives as long as its browser process
DomAfter(r, st) ==
    dom' = [dom EXCEPT ![r] = IF st = "closed" THEN NoPage ELSE @]

(* ------------------------------ actions ------------------------------- *)
\* app.post(...): the handler up to its first await
Receive(r) ==
    /\ r \in clients
    /\ pc[r] = "idle"
    /\ \E ep \in Endpoints, url \in Urls, sc \in SlideCountFields :
        /\ endpoint' = [endpoint EXCEPT ![r] = ep]
        /\ body' = [body EXCEPT ![r] = [url |-> url, slideCount |-> sc]]
        /\ IF Falsy(url)
           THEN /\ pc' = [pc EXCEPT ![r] = "done"]
                /\ responses' = [responses EXCEPT ![r] = Append(@, BadRequest)]
           ELSE /\ pc' = [pc EXCEPT ![r] = "launch"]
                /\ UNCHANGED responses
    /\ UNCHANGED << clients, web, browser, procs, dom, slides, textContent,
                    narrations, i, error, log >>

\* a launch whose result is kept in one variable shared by all handlers
LaunchReturnsShared(r) ==
    /\ pc[r] = "launch"
    /\ procs' = Append(procs, [state |-> "open", closeCalls |-> 0, owner |-> r])
    /\ browser' = [q \in Reqs |-> Len(procs) + 1]
    /\ pc' = [pc EXCEPT ![r] = "newPage"]
    /\ UNCHANGED << clients, web, endpoint, body, dom, slides, textContent,
                    narrations, i, error, responses, log >>

\* browser = await puppeteer.launch(...); browser.newPage() is called
LaunchReturns(r) ==
    /\ pc[r] = "launch"
    /\ procs' = Append(procs, [state |-> "open", closeCalls |-> 0, owner |-> r])
    /\ browser' = [browser EXCEPT ![r] = Len(procs) + 1]
    /\ pc' = [pc EXCEPT ![r] = "newPage"]
    /\ UNCHANGED << clients, web, endpoint, body, dom, slides, textContent,
                    narrations, i, error, responses, log >>

LaunchThrows(r) ==
    /\ pc[r] = "launch"
    /\ EnterCatch(r, "launch")
    /\ UNCHANGED << clients, web, endpoint, body, browser, procs, dom, slides,
                    textContent, narrations, i, log >>

\* const page = await browser.newPage(); page.goto(url) is called
NewPageReturns(r) ==
    /\ pc[r] = "newPage"
    /\ pc' = [pc EXCEPT ![r] = "goto"]
    /\ UNCHANGED << clients, web, endpoint, body, browser, procs, dom, slides,
                    textContent, narrations, i, error, responses, log >>

NewPageThrows(r) ==
    /\ pc[r] = "newPage"
    /\ EnterCatch(r, "newPage")
    /\ UNCHANGED << clients, web, endpoint, body, browser, procs, dom, slides,
                    textContent, narrations, i, log >>

\* await page.goto(url, ...): the page has loaded some document
GotoReturns(r) ==
    /\ pc[r] = "goto"
    /\ \E doc \in Rendered(web) : dom' = [dom EXCEPT ![r] = doc]
    /\ pc' = [pc EXCEPT ![r] = "settle"]
    /\ UNCHANGED << clients, web, endpoint, body, browser, procs, slides,
                    textContent, narrations, i, error, responses, log >>

GotoThrows(r) ==
    /\ pc[r] = "goto"
    /\ EnterCatch(r, "goto")
    /\ UNCHANGED << clients, web, endpoint, body, browser, procs, dom, slides,
                    textContent, narrations, i, log >>

\* await new Promise(resolve => setTimeout(resolve, 2000 | 3000));
\* page.evaluate is called
Settle(r) ==
    /\ pc[r] = "settle"
    /\ pc' = [pc EXCEPT ![r] = "evaluate"]
    /\ UNCHANGED << clients, web, endpoint, body, browser, procs, dom, slides,
                    textContent, narrations, i, error, responses, log >>

\* const textContent = await page.evaluate(...) of the single handler;
\* browser.close() is called
EvaluateSingleReturns(r) ==
    /\ pc[r] = "evaluate"
    /\ endpoint[r] = "single"
    /\ dom' = [dom EXCEPT ![r] = RemoveExcluded(@)]
    /\ textContent' = [textContent EXCEPT ![r] = InnerText(RemoveExcluded(dom[r]))]
    /\ pc' = [pc EXCEPT ![r] = "close"]
    /\ UNCHANGED << clients, web, endpoint, body, browser, procs, slides,
                    narrations, i, error, responses, log >>

\* a batch extraction that removes the non-content elements from the
\* document after it has collected the slides
EvaluateBatchReturnsStripping(r) ==
    /\ pc[r] = "evaluate"
    /\ endpoint[r] = "batch"
    /\ slides' = [slides EXCEPT ![r] = DetectSlides(dom[r])]
    /\ dom' = [dom EXCEPT ![r] = RemoveExcluded(@)]
    /\ pc' = [pc EXCEPT ![r] = "close"]
    /\ UNCHANGED << clients, web, endpoint, body, browser, procs,
                    textContent, narrations, i, error, responses, log >>

\* const slides = await page.evaluate(...) of the batch handler;
\* browser.close() is called
EvaluateBatchReturns(r) ==
    /\ pc[r] = "evaluate"
    /\ endpoint[r] = "batch"
    /\ slides' = [slides EXCEPT ![r] = DetectSlides(dom[r])]
    /\ pc' = [pc EXCEPT ![r] = "close"]
    /\ UNCHANGED << clients, web, endpoint, body, browser, procs, dom,
                    textContent, narrations, i, error, responses, log >>

EvaluateThrows(r) ==
    /\ pc[r] = "evaluate"
    /\ EnterCatch(r, "evaluate")
    /\ UNCHANGED << clients, web, endpoint, body, browser, procs, dom, slides,
                    textContent, narrations, i, log >>


\* a close of the single handler that forgets `browser = null`
CloseSingleReturnsKeepsHandle(r) ==
    /\ pc[r] = "close"
    /\ endpoint[r] = "single"
    /\ Closed(browser[r], "closed")
    /\ DomAfter(r, "closed")
    /\ pc' = [pc EXCEPT ![r] = "generate"]
    /\ log' = [log EXCEPT ![r] =
           Append(@, [ev |-> "call", prompt |-> SinglePrompt(textContent[r])])]
    /\ UNCHANGED << clients, web, endpoint, body, browser, slides, textContent,
                    narrations, i, error, responses >>

\* await browser.close(); browser = null; of the single handler, and
\* model.generateContent(prompt) is called
CloseSingleReturns(r) ==
    /\ pc[r] = "close"
    /\ endpoint[r] = "single"
    /\ Closed(browser[r], "closed")
    /\ DomAfter(r, "closed")
    /\ browser' = [browser EXCEPT ![r] = 0]
    /\ pc' = [pc EXCEPT ![r] = "generate"]
    /\ log' = [log EXCEPT ![r] =
           Append(@, [ev |-> "call", prompt |-> SinglePrompt(textContent[r])])]
    /\ UNCHANGED << clients, web, endpoint, body, slides, textContent, narrations,
                    i, error, responses >>

\* await browser.close(); browser = null; const narrations = []; of the batch
\* handler, and the loop is entered
CloseBatchReturns(r) ==
    /\ pc[r] = "close"
    /\ endpoint[r] = "batch"
    /\ Closed(browser[r], "closed")
    /\ DomAfter(r, "closed")
    /\ browser' = [browser EXCEPT ![r] = 0]
    /\ LoopHead(r, 0, <<>>, log[r])
    /\ UNCHANGED << clients, web, endpoint, body, slides, textContent, error >>

\* await browser.close() throws: `browser = null` is not reached
CloseThrows(r) ==
    /\ pc[r] = "close"
    /\ \E st \in AfterFailedClose(browser[r]) :
        /\ Closed(browser[r], st)
        /\ DomAfter(r, st)
    /\ EnterCatch(r, "close")
    /\ UNCHANGED << clients, web, endpoint, body, browser, slides, textContent,
                    narrations, i, log >>

\* const result = await model.generateContent(prompt) of the single handler,
\* and the success response
GenerateSingleReturns(r) ==
    /\ pc[r] = "generate"
    /\ endpoint[r] = "single"
    /\ LET narration == Generated(SinglePrompt(textContent[r]))
       IN  /\ narrations' = [narrations EXCEPT ![r] = <<narration>>]
           /\ responses' = [responses EXCEPT
                  ![r] = Append(@, SingleSuccess(narration, textContent[r]))]
    /\ log' = [log EXCEPT ![r] = Append(@, [ev |-> "returned"])]
    /\ pc' = [pc EXCEPT ![r] = "done"]
    /\ UNCHANGED << clients, web, endpoint, body, browser, procs, dom, slides,
                    textContent, i, error >>

\* generateContent (or result.response.text()) throws in the single handler
GenerateSingleThrows(r) ==
    /\ pc[r] = "generate"
    /\ endpoint[r] = "single"
    /\ log' = [log EXCEPT ![r] = Append(@, [ev |-> "threw"])]
    /\ EnterCatch(r, "generate")
    /\ UNCHANGED << clients, web, endpoint, body, browser, procs, dom, slides,
                    textContent, narrations, i >>

\* const result = await model.generateContent(prompt) in the loop;
\* narrations.push(narration); the pacing timer is started
GenerateBatchReturns(r) ==
    /\ pc[r] = "generate"
    /\ endpoint[r] = "batch"
    /\ narrations' = [narrations EXCEPT
           ![r] = Append(@, Generated(BatchPrompt(i[r], slides[r])))]
    /\ log' = [log EXCEPT ![r] = Append(@, [ev |-> "returned"])]
    /\ pc' = [pc EXCEPT ![r] = "pace"]
    /\ UNCHANGED << clients, web, endpoint, body, browser, procs, dom, slides,
                    textContent, i, error, responses >>

\* await new Promise(resolve => setTimeout(resolve, 500)); i++
Pace(r) ==
    /\ pc[r] = "pace"
    /\ LoopHead(r, i[r] + 1, narrations[r], Append(log[r], [ev |-> "pace"]))
    /\ UNCHANGED << clients, web, endpoint, body, browser, procs, dom, slides,
                    textContent, error >>

\* a catch that submits the same slide again instead of pushing the fallback
GenerateBatchThrowsRetry(r) ==
    /\ pc[r] = "generate"
    /\ endpoint[r] = "batch"
    /\ GenMayThrow(i[r])
    /\ LoopHead(r, i[r], narrations[r], Append(log[r], [ev |-> "threw"]))
    /\ UNCHANGED << clients, web, endpoint, body, browser, procs, dom, slides,
                    textContent, error >>

\* the catch of the loop: narrations.push(fallback); i++
GenerateBatchThrows(r) ==
    /\ pc[r] = "generate"
    /\ endpoint[r] = "batch"
    /\ GenMayThrow(i[r])
    /\ LoopHead(r, i[r] + 1, Append(narrations[r], Fallback(i[r])),
                Append(log[r], [ev |-> "threw"]))
    /\ UNCHANGED << clients, web, endpoint, body, browser, procs, dom, slides,
                    textContent, error >>

\* if (browser) { await browser.close(); } res.status(500).json(...)
CatchCloseReturns(r) ==
    /\ pc[r] = "catchClose"
    /\ Closed(browser[r], "closed")
    /\ DomAfter(r, "closed")
    /\ responses' = [responses EXCEPT
           ![r] = Append(@, ServerError(endpoint[r], error[r]))]
    /\ pc' = [pc EXCEPT ![r] = "done"]
    /\ UNCHANGED << clients, web, endpoint, body, browser, slides, textContent,
                    narrations, i, error, log >>

\* browser.close() throws inside the catch block: the handler's promise is
\* rejected and nothing after the await runs
CatchCloseThrows(r) ==
    /\ pc[r] = "catchClose"
    /\ \E st \in AfterFailedClose(browser[r]) :
        /\ Closed(browser[r], st)
        /\ DomAfter(r, st)
    /\ pc' = [pc EXCEPT ![r] = "rejected"]
    /\ UNCHANGED << clients, web, endpoint, body, browser, slides, textContent,
                    narrations, i, error, responses, log >>

Next ==
    \E r \in Reqs :
        \/ Receive(r)
        \/ LaunchReturns(r)
        \/ LaunchThrows(r)
        \/ NewPageReturns(r)
        \/ NewPageThrows(r)
        \/ GotoReturns(r)
        \/ GotoThrows(r)
        \/ Settle(r)
        \/ EvaluateSingleReturns(r)
        \/ EvaluateBatchReturns(r)
        \/ EvaluateThrows(r)
        \/ CloseSingleReturns(r)
        \/ CloseBatchReturns(r)
        \/ CloseThrows(r)
        \/ GenerateSingleReturns(r)
        \/ GenerateSingleThrows(r)
        \/ GenerateBatchReturns(r)
        \/ Pace(r)
        \/ GenerateBatchThrows(r)
        \/ CatchCloseReturns(r)
        \/ CatchCloseThrows(r)

Spec == Init /\ [][Next]_vars

\* the handlers of two requests interleaved at their awaits
SpecConcurrent == InitConcurrent /\ [][Next]_vars


(* ------------------------------ properties ---------------------------- *)
\* the generateContent calls of a request, in the order issued
Calls(r) == SelectSeq(log[r], LAMBDA e : e.ev = "call")

\* how each finished generateContent call ended, in order
Outcomes(r) == SelectSeq(log[r], LAMBDA e : e.ev \in {"returned", "threw"})

\* the request has been answered 200
Succeeded(r) ==
    pc[r] = "done" /\ Len(responses[r]) = 1 /\ responses[r][1].status = 200

\* C1: once the batch loop has started, no generator failure aborts the
\* request: it stays in the loop or ends with one 200 success response, and
\* narrations[k] is the fallback naming ordinal k+1 exactly when the k-th
\* call threw, and the text generated for the k-th prompt otherwise.
C1_FailureIsolation ==
    \A r \in Reqs :
        (endpoint[r] = "batch" /\ log[r] # <<>>) =>
            /\ pc[r] \in {"generate", "pace", "done"}
            /\ error[r] = "none"
            /\ pc[r] = "done" =>
                  /\ Succeeded(r)
                  /\ responses[r][1].success
                  /\ responses[r][1].narrations = narrations[r]
            /\ Len(narrations[r]) = Len(Outcomes(r))
            /\ \A k \in 1..Len(Outcomes(r)) :
                  IF Outcomes(r)[k].ev = "threw"
                  THEN narrations[r][k] = [kind |-> "fallback", ordinal |-> k]
                  ELSE narrations[r][k] =
                          [kind |-> "generated", for |-> Calls(r)[k].prompt]

\* C1 witness: a batch answered 200 whose second call threw and whose first
\* and third returned
C1_Witness ==
    \E r \in Reqs :
        /\ endpoint[r] = "batch"
        /\ Succeeded(r)
        /\ Len(narrations[r]) >= 3
        /\ narrations[r][1].kind = "generated"
        /\ narrations[r][2].kind = "fallback"
        /\ narrations[r][3].kind = "generated"

\* C2: every loop iteration appends exactly one entry, and a batch success
\* response has generatedCount = length(narrations) = min(slide count, 50).
C2_ProducedCount ==
    \A r \in Reqs :
        endpoint[r] = "batch" =>
            /\ pc[r] = "generate" => Len(narrations[r]) = i[r]
            /\ pc[r] = "pace" => Len(narrations[r]) = i[r] + 1
            /\ Succeeded(r) =>
                  LET n == Len(slides[r])
                      expected == IF n < SlideCap THEN n ELSE SlideCap
                  IN  /\ responses[r][1].generatedCount = expected
                      /\ Len(responses[r][1].narrations) = expected

\* C2 witness: more slides than the ceiling, answered with the ceiling
C2_Witness ==
    \E r \in Reqs :
        /\ endpoint[r] = "batch"
        /\ Succeeded(r)
        /\ Len(slides[r]) > SlideCap
        /\ responses[r][1].generatedCount = SlideCap
        /\ \E k \in 1..SlideCap : narrations[r][k].kind = "fallback"


\* the handler of the request has finished: it returned, or its promise was
\* rejected
Finished(r) == pc[r] \in {"done", "rejected"}

\* the browsers the request launched
BrowsersOf(r) == { b \in 1..Len(procs) : procs[b].owner = r }

\* C3: a finished request has left no browser of its own open, close() is
\* never called on a browser that is already closed, and a request whose
\* launch failed has no browser and calls no close().
C3_BrowserReleasedOnce ==
    \A r \in Reqs :
        /\ Finished(r) => \A b \in BrowsersOf(r) : procs[b].state = "closed"
        /\ pc[r] = "catchClose" => procs[browser[r]].state = "open"
        /\ error[r] = "launch" => BrowsersOf(r) = {}

\* C4: no request is answered twice, and a request whose handler has
\* finished has been answered exactly once, with status 400, 200 or 500.
C4_ExactlyOneResponse ==
    \A r \in Reqs :
        /\ Len(responses[r]) <= 1
        /\ Finished(r) =>
              /\ Len(responses[r]) = 1
              /\ responses[r][1].status \in {400, 200, 500}

\* C5: the prompt of the call at position p asks for role first if p = 0,
\* last if p is the last position below the ceiling, middle otherwise.
C5_PositionRole ==
    \A r \in Reqs :
        endpoint[r] = "batch" =>
            \A k \in 1..Len(Calls(r)) :
                LET n == Len(slides[r])
                    lastCapped == (IF n < SlideCap THEN n ELSE SlideCap) - 1
                IN  Calls(r)[k].prompt.role =
                        IF k - 1 = 0 THEN "first"
                        ELSE IF k - 1 = lastCapped THEN "last"
                        ELSE "middle"

\* C6: in a batch request every generator call but the first is issued
\* right after a pacing delay.
C6_PacingDelay ==
    \A r \in Reqs :
        endpoint[r] = "batch" =>
            \A k \in 2..Len(log[r]) :
                log[r][k].ev = "call" => log[r][k - 1].ev = "pace"


\* the trimmed length of a text, counted on its parts
TrimmedLength(s) == s.core

\* the selector patterns that match at least one element of the document
MatchingPatterns(doc) ==
    { k \in 1..Len(slideSelectors) :
        \E e \in 1..Len(doc) : Matches(slideSelectors[k], doc[e]) }

\* C7 as stated: every slide of the segmenter's output has trimmed text
\* length > 20, whatever the page.
C7_AllSlidesLong ==
    \A r \in Reqs :
        endpoint[r] = "batch" =>
            \A k \in 1..Len(slides[r]) : TrimmedLength(slides[r][k].text) > 20

\* C7 amended: when some selector pattern matches an element of the page,
\* every slide of the output has trimmed text length > 20 (so every prompt
\* of a request with two or more slides carries such a text); the
\* whole-page slide of a page no pattern matches is not filtered.
C7_MatchedSlidesLong ==
    \A r \in Reqs :
        endpoint[r] = "batch" =>
            /\ (pc[r] = "close" /\ MatchingPatterns(dom[r]) # {}) =>
                  \A k \in 1..Len(slides[r]) :
                      TrimmedLength(slides[r][k].text) > 20
            /\ (pc[r] = "close" /\ MatchingPatterns(dom[r]) = {}) =>
                  /\ Len(slides[r]) = 1
                  /\ slides[r][1].text = InnerText(dom[r])
            /\ Len(slides[r]) > 1 =>
                  \A k \in 1..Len(Calls(r)) :
                      TrimmedLength(Calls(r)[k].prompt.text) > 20

\* C7 witness: a pattern matched two elements, the first of them has trimmed
\* length 20 and was dropped, the second was kept
C7_Witness ==
    \E r \in Reqs :
        /\ endpoint[r] = "batch"
        /\ pc[r] = "close"
        /\ Len(dom[r]) = 2
        /\ MatchingPatterns(dom[r]) # {}
        /\ TrimmedLength(dom[r][1].text) = 20
        /\ Length(dom[r][1].text) > 20
        /\ Len(slides[r]) = 1
        /\ slides[r][1].index = 1

\* C8: in a batch success response the k-th narration is the fallback for
\* ordinal k or the text generated for the prompt built from the k-th slide
\* of the segmenter's output, and there are no more narrations than slides.
C8_NarrationOrder ==
    \A r \in Reqs :
        (endpoint[r] = "batch" /\ Succeeded(r)) =>
            LET ns == responses[r][1].narrations
            IN  /\ Len(ns) <= Len(slides[r])
                /\ \A k \in 1..Len(ns) :
                      \/ ns[k] = [kind |-> "fallback", ordinal |-> k]
                      \/ /\ ns[k].kind = "generated"
                         /\ ns[k].for.ordinal = k
                         /\ ns[k].for.text =
                               Substring(slides[r][k].text, BatchTextBudget)

\* C8 witness: the first two slides have different texts and both are
\* narrated by the generator
C8_Witness ==
    \E r \in Reqs :
        /\ endpoint[r] = "batch"
        /\ Succeeded(r)
        /\ Len(slides[r]) >= 2
        /\ slides[r][1].text # slides[r][2].text
        /\ \A k \in 1..2 : responses[r][1].narrations[k].kind = "generated"

\* C9: after the segmenter has run, its output is built from the elements
\* matched by the first pattern (in priority order) that matches anything:
\* each slide is one of these elements with its rank among them as index,
\* every such element of trimmed length > 20 is a slide, in document order;
\* only when no pattern matches is the output the single slide with the
\* whole page text and index 0.
C9_SelectorPriority ==
    \A r \in Reqs :
        (endpoint[r] = "batch" /\ pc[r] = "close") =>
            LET doc == dom[r]
                M == MatchingPatterns(doc)
            IN  IF M = {}
                THEN slides[r] = << [text |-> InnerText(doc), index |-> 0] >>
                ELSE LET first == CHOOSE k \in M : \A j \in M : k <= j
                         P == { e \in 1..Len(doc) :
                                  Matches(slideSelectors[first], doc[e]) }
                         Rank(e) == Cardinality({ q \in P : q < e })
                     IN  /\ \A n \in 1..Len(slides[r]) :
                               \E e \in P :
                                   /\ slides[r][n].index = Rank(e)
                                   /\ slides[r][n].text = doc[e].text
                         /\ \A e \in P :
                               TrimmedLength(doc[e].text) > 20 =>
                                   \E n \in 1..Len(slides[r]) :
                                       slides[r][n].index = Rank(e)
                         /\ \A n \in 1..(Len(slides[r]) - 1) :
                               slides[r][n].index < slides[r][n + 1].index

\* C9 witness: the first element matches only a lower-priority pattern, the
\* second matches the highest-priority one, and only the second is a slide
C9_Witness ==
    \E r \in Reqs :
        /\ endpoint[r] = "batch"
        /\ pc[r] = "close"
        /\ Len(dom[r]) = 2
        /\ Matches(slideSelectors[2], dom[r][1])
        /\ Matches(slideSelectors[1], dom[r][2])
        /\ TrimmedLength(dom[r][1].text) > 20
        /\ slides[r] = << [text |-> dom[r][2].text, index |-> 0] >>

\* C10: a request whose url is missing (absent or empty) is answered 400
\* and nothing else happens for it: no browser is launched and no generator
\* call is made.
C10_ValidationFirst ==
    \A r \in Reqs :
        (pc[r] # "idle" /\ body[r].url \in {"undefined", ""}) =>
            /\ pc[r] = "done"
            /\ responses[r] = << [status |-> 400] >>
            /\ BrowsersOf(r) = {}
            /\ browser[r] = 0
            /\ log[r] = <<>>

\* C10 witness: a request without url has been answered 400
C10_Witness ==
    \E r \in Reqs :
        /\ pc[r] = "done"
        /\ body[r].url = "undefined"
        /\ responses[r] = << [status |-> 400] >>


\* the request was aborted by a failure of launch, navigation or extraction
RenderFailed(r) == error[r] \in {"launch", "goto", "evaluate"}

\* C11: a request aborted by a render failure, or in single-slide mode by a
\* generation failure, has finished with exactly the 500 response carrying
\* the error's message; after a render failure no generator call is made
\* and no success response is sent.
C11_FailureAborts ==
    \A r \in Reqs :
        /\ (Finished(r) /\ (RenderFailed(r)
                              \/ (endpoint[r] = "single" /\ error[r] = "generate"))) =>
              responses[r] =
                  << [status |-> 500, error |-> endpoint[r], message |-> error[r]] >>
        /\ RenderFailed(r) =>
              /\ log[r] = <<>>
              /\ \A k \in 1..Len(responses[r]) : responses[r][k].status # 200


\* C12: in a batch request no generator call and no narration (generated or
\* fallback) is for a position at or beyond 50, and the success response
\* reports as slideCount the number of slides the segmenter returned.
C12_CapExcludes ==
    \A r \in Reqs :
        endpoint[r] = "batch" =>
            /\ Len(Calls(r)) <= 50
            /\ \A k \in 1..Len(Calls(r)) : Calls(r)[k].prompt.ordinal <= 50
            /\ Len(narrations[r]) <= 50
            /\ \A k \in 1..Len(narrations[r]) :
                  IF narrations[r][k].kind = "fallback"
                  THEN narrations[r][k].ordinal <= 50
                  ELSE narrations[r][k].for.ordinal <= 50
            /\ Succeeded(r) =>
                  /\ responses[r][1].slideCount = Len(slides[r])
                  /\ responses[r][1].narrations = narrations[r]

\* C12 witness: 51 or more slides, 50 calls, slideCount above 50
C12_Witness ==
    \E r \in Reqs :
        /\ endpoint[r] = "batch"
        /\ Succeeded(r)
        /\ Len(slides[r]) > 50
        /\ Len(Calls(r)) = 50
        /\ Len(responses[r][1].narrations) = 50
        /\ responses[r][1].slideCount > 50


\* C13: in a batch request the k-th generator call is for slide position
\* k-1 (increasing order, each slide once, no retry), a call is issued only
\* after the previous one has returned or thrown, and at most one call is
\* in flight.
C13_SequentialOnce ==
    \A r \in Reqs :
        endpoint[r] = "batch" =>
            /\ Len(Calls(r)) <= Len(slides[r])
            /\ \A k \in 1..Len(Calls(r)) :
                  /\ Calls(r)[k].prompt.ordinal = k
                  /\ Calls(r)[k].prompt.text =
                        Substring(slides[r][k].text, BatchTextBudget)
            /\ \A k \in 1..(Len(log[r]) - 1) :
                  log[r][k].ev = "call" => log[r][k + 1].ev \in {"returned", "threw"}
            /\ Len(Calls(r)) - Len(Outcomes(r)) = IF pc[r] = "generate" THEN 1 ELSE 0

\* C13 witness: the first call threw, the second returned and the third is
\* in flight
C13_Witness ==
    \E r \in Reqs :
        /\ endpoint[r] = "batch"
        /\ pc[r] = "generate"
        /\ Len(Calls(r)) = 3
        /\ Outcomes(r)[1].ev = "threw"
        /\ Outcomes(r)[2].ev = "returned"


\* C14 as stated: the indices of the segmenter's output are 0, 1, ..., n-1.
C14_DenseIndices ==
    \A r \in Reqs :
        endpoint[r] = "batch" =>
            \A k \in 1..Len(slides[r]) : slides[r][k].index = k - 1

\* C14 amended: the index of a slide is its position among the elements of
\* the selected pattern before filtering: indices increase strictly, the
\* k-th slide carries the text of the candidate at its index, and its index
\* exceeds its position k-1 by the number of earlier candidates that were
\* filtered out.
C14_PreFilterIndices ==
    \A r \in Reqs :
        endpoint[r] = "batch" =>
            /\ \A k \in 1..(Len(slides[r]) - 1) :
                  slides[r][k].index < slides[r][k + 1].index
            /\ \A k \in 1..Len(slides[r]) : slides[r][k].index >= k - 1
            /\ (pc[r] = "close" /\ MatchingPatterns(dom[r]) # {}) =>
                  LET M == MatchingPatterns(dom[r])
                      first == CHOOSE k \in M : \A j \in M : k <= j
                      cands == QuerySelectorAll(dom[r], slideSelectors[first])
                  IN  \A k \in 1..Len(slides[r]) :
                          LET ix == slides[r][k].index
                          IN  /\ ix < Len(cands)
                              /\ cands[ix + 1].text = slides[r][k].text
                              /\ ix - (k - 1) =
                                    Cardinality({ q \in 1..ix :
                                        TrimmedLength(cands[q].text) <= 20 })

\* C14 witness: three elements of one pattern, the middle one filtered out:
\* the two slides carry the indices 0 and 2
C14_Witness ==
    \E r \in Reqs :
        /\ endpoint[r] = "batch"
        /\ pc[r] = "close"
        /\ Len(dom[r]) = 3
        /\ \A e \in 1..3 : Matches(slideSelectors[1], dom[r][e])
        /\ TrimmedLength(dom[r][2].text) <= 20
        /\ Len(slides[r]) = 2
        /\ slides[r][1].index = 0
        /\ slides[r][2].index = 2


\* the element is one of script, style, nav, header, footer
IsExcluded(el) ==
    \E k \in 1..Len(excludeSelectors) : Matches(excludeSelectors[k], el)

\* the document without its non-content elements
ContentOf(doc) == SelectSeq(doc, LAMBDA el : ~IsExcluded(el))

\* C15 for the single handler: once its extraction has returned, the
\* document holds no non-content element and the extracted text is the text
\* of what is left.
C15_SingleNoiseRemoved ==
    \A r \in Reqs :
        (endpoint[r] = "single" /\ pc[r] = "close") =>
            /\ \A e \in 1..Len(dom[r]) : ~IsExcluded(dom[r][e])
            /\ textContent[r] = InnerText(dom[r])

\* C15: in both modes the extracted text is that of the document without
\* its non-content elements: the single handler's text, the batch handler's
\* whole-page slide, and every slide of a matched pattern (each the text of
\* a content element).
C15_NoiseRemoved ==
    /\ C15_SingleNoiseRemoved
    /\ \A r \in Reqs :
        (endpoint[r] = "batch" /\ pc[r] = "close") =>
            LET clean == ContentOf(dom[r])
            IN  IF MatchingPatterns(clean) = {}
                THEN slides[r] = << [text |-> InnerText(clean), index |-> 0] >>
                ELSE \A k \in 1..Len(slides[r]) :
                        \E e \in 1..Len(clean) : slides[r][k].text = clean[e].text


\* the generator behaved alike for two requests: the outcomes of their
\* calls agree as far as both made calls
SameGeneratorBehaviour(r1, r2) ==
    \A k \in 1..Min(Len(Outcomes(r1)), Len(Outcomes(r2))) :
        Outcomes(r1)[k] = Outcomes(r2)[k]

\* two finished batch requests that differ in nothing but slideCount: same
\* url, same segmented page, same outcome of every collaborator call
DifferOnlyInSlideCount(r1, r2) ==
    /\ endpoint[r1] = "batch" /\ endpoint[r2] = "batch"
    /\ Finished(r1) /\ Finished(r2)
    /\ body[r1].url = body[r2].url
    /\ body[r1].slideCount # body[r2].slideCount
    /\ pc[r1] = pc[r2]
    /\ error[r1] = error[r2]
    /\ slides[r1] = slides[r2]
    /\ SameGeneratorBehaviour(r1, r2)

\* C16: two batch requests that differ only in slideCount, run against the
\* same page and the same generator behaviour, have the same responses and
\* the same sequence of generator calls.
C16_SlideCountAdvisory ==
    \A r1, r2 \in Reqs :
        DifferOnlyInSlideCount(r1, r2) =>
            /\ responses[r1] = responses[r2]
            /\ Calls(r1) = Calls(r2)

\* C16 witness: two such requests, each answered 200 with two narrations,
\* the first of them a fallback
C16_Witness ==
    \E r1, r2 \in Reqs :
        /\ DifferOnlyInSlideCount(r1, r2)
        /\ Succeeded(r1) /\ Succeeded(r2)
        /\ Len(narrations[r1]) = 2
        /\ narrations[r1][1].kind = "fallback"
        /\ narrations[r1][2].kind = "generated"


\* the narrations a batch request produces from its own slides and the
\* outcomes of its own generator calls
OwnNarrations(r) ==
    [ k \in 1..Len(Outcomes(r)) |->
        IF Outcomes(r)[k].ev = "threw"
        THEN [kind |-> "fallback", ordinal |-> k]
        ELSE [kind |-> "generated",
              for |-> [ ordinal |-> k,
                        role |-> IF k = 1 THEN "first"
                                 ELSE IF k = Len(slides[r]) THEN "last"
                                 ELSE "middle",
                        text |-> Substring(slides[r][k].text, BatchTextBudget) ]] ]

\* the responses a request gets when it is the only one: a function of its
\* own body, page content, collaborator outcomes and nothing else
OwnResponses(r) ==
    IF pc[r] # "done" THEN <<>>
    ELSE IF body[r].url \in {"undefined", ""} THEN << [status |-> 400] >>
    ELSE IF error[r] # "none"
    THEN << [status |-> 500, error |-> endpoint[r], message |-> error[r]] >>
    ELSE IF endpoint[r] = "batch"
    THEN << [ status |-> 200, success |-> TRUE, narrations |-> OwnNarrations(r),
              slideCount |-> Len(slides[r]),
              generatedCount |-> Len(OwnNarrations(r)) ] >>
    ELSE << [ status |-> 200, success |-> TRUE,
              narration |-> [kind |-> "generated",
                             for |-> [ ordinal |-> 0, role |-> "standalone",
                                       text |-> Substring(textContent[r],
                                                          SingleTextBudget) ]],
              textLength |-> Length(textContent[r]) ] >>

\* the request has itself called browser.close() at least once
HasCalledClose(r) ==
    pc[r] \in {"generate", "pace", "done", "rejected", "catchClose"}

\* C17: with requests interleaved, every request's responses are those it
\* produces from its own inputs alone, the handle it holds is a browser it
\* launched itself, it launches at most one, and a browser has close()
\* calls only once its own request has reached a close.
C17_NoSharedState ==
    /\ \A r \in Reqs :
          /\ responses[r] = OwnResponses(r)
          /\ browser[r] # 0 => procs[browser[r]].owner = r
          /\ Cardinality(BrowsersOf(r)) <= 1
    /\ \A b \in 1..Len(procs) :
          procs[b].closeCalls > 0 => HasCalledClose(procs[b].owner)

\* C17 witness: two requests in flight at once: the one that launched its
\* browser second already awaits the generator while the other, its browser
\* still open, awaits its extraction
C17_Witness ==
    \E r1, r2 \in Reqs :
        /\ r1 # r2
        /\ Len(procs) = 2
        /\ procs[1].owner = r2 /\ procs[2].owner = r1
        /\ pc[r1] = "generate" /\ browser[r1] = 0
        /\ procs[2].state = "closed"
        /\ pc[r2] = "evaluate" /\ browser[r2] = 1
        /\ procs[1].state = "open" /\ procs[1].closeCalls = 0


\* C18: the step in which the batch handler segments the page leaves the
\* document as it was, and segmenting the document again after that step
\* yields the very slide list the step returned.
C18_SegmentationIdempotent ==
    [][ \A r \in Reqs :
          (endpoint[r] = "batch" /\ pc[r] = "evaluate" /\ pc'[r] = "close") =>
              /\ dom'[r] = dom[r]
              /\ DetectSlides(dom'[r]) = slides'[r] ]_vars

\* C18 witness: a page of three elements has been segmented into two slides
C18_Witness ==
    \E r \in Reqs :
        /\ endpoint[r] = "batch"
        /\ pc[r] = "close"
        /\ Len(dom[r]) = 3
        /\ Len(slides[r]) = 2


\* C19: from the first generator call of a request on, in either mode, the
\* request's browser is closed and its `browser` local is null; so a
\* generation failure of the single handler is answered without another
\* close() call.
C19_ClosedBeforeGenerate ==
    \A r \in Reqs :
        /\ (pc[r] = "generate" \/ log[r] # <<>>) =>
              /\ browser[r] = 0
              /\ BrowsersOf(r) # {}
              /\ \A b \in BrowsersOf(r) :
                    procs[b].state = "closed" /\ procs[b].closeCalls = 1
        /\ error[r] = "generate" => pc[r] = "done"

\* C19 witness: a generator call is in flight and the request's browser has
\* been closed by its one close() call
C19_Witness ==
    \E r \in Reqs :
        /\ pc[r] = "generate"
        /\ endpoint[r] = "batch"
        /\ i[r] = 1
        /\ \E b \in BrowsersOf(r) :
              procs[b].state = "closed" /\ procs[b].closeCalls = 1


\* the highest-priority selector pattern that matches an element of the
\* document (a document that some pattern matches)
FirstMatchingPattern(doc) ==
    CHOOSE k \in MatchingPatterns(doc) : \A j \in MatchingPatterns(doc) : k <= j

\* some pattern matches, and every element matched by the highest-priority
\* matching pattern has trimmed text length <= 20
AllMatchedShort(doc) ==
    /\ MatchingPatterns(doc) # {}
    /\ \A e \in 1..Len(doc) :
          Matches(slideSelectors[FirstMatchingPattern(doc)], doc[e]) =>
              TrimmedLength(doc[e].text) <= 20

\* C20: when a pattern matches but every element it matches has trimmed
\* text length <= 20, the segmenter returns no slide; a batch request with
\* no slide makes no generator call, and once its close() has returned it is
\* answered 200 success with no narration, slideCount 0 and generatedCount 0.
C20_EmptySegmentation ==
    \A r \in Reqs :
        endpoint[r] = "batch" =>
            /\ (pc[r] = "close" /\ AllMatchedShort(dom[r])) => slides[r] = <<>>
            /\ slides[r] = <<>> => log[r] = <<>>
            /\ ( /\ pc[r] = "done" /\ error[r] = "none"
                 /\ BrowsersOf(r) # {} /\ slides[r] = <<>> ) =>
                  responses[r] =
                      << [ status |-> 200, success |-> TRUE,
                           narrations |-> <<>>, slideCount |-> 0,
                           generatedCount |-> 0 ] >>

\* C20 witness: the page has a short section and a long element that only a
\* lower-priority pattern matches, and the segmenter has returned no slide
C20_Witness ==
    \E r \in Reqs :
        /\ endpoint[r] = "batch" /\ pc[r] = "close"
        /\ AllMatchedShort(dom[r])
        /\ FirstMatchingPattern(dom[r]) = 1
        /\ \E e \in 1..Len(dom[r]) :
              /\ \E k \in MatchingPatterns(dom[r]) : k > 1 /\ Matches(slideSelectors[k], dom[r][e])
              /\ TrimmedLength(dom[r][e].text) > 20
        /\ slides[r] = <<>>

====
